---- MODULE Spec2Model ----
(***************************************************************************)
(* A model of doclistbuilder: the layered option resolution of             *)
(* opsladder.py, the scoped assembler of assemblable.py and the LaTeX      *)
(* document parts of llatex.py.                                            *)
(*                                                                         *)
(* Python objects that are shared by reference are modelled as such: the   *)
(* per-class _defaults dictionaries are the variable `defaults` (every     *)
(* instance reaches them through its settings chain), a scope's            *)
(* accumulating list is `data[s]`, and a scope's _result is either absent, *)
(* the very list object data[s], or a list of its own.                     *)
(*                                                                         *)
(* Strings are TLA+ strings; names, which the code inspects character by   *)
(* character, are sequences of one-character strings.  An optional value   *)
(* (str | None) is <<>> for None and <<v>> for v.                          *)
(***************************************************************************)
EXTENDS Integers, Sequences, FiniteSets, TLC

VARIABLES
    defaults,   \* the _defaults dictionary of each class that declares one
    objs,       \* the scope instances, in order of construction
    data,       \* data[s]: the contents of scope s's accumulating list
    _result,    \* _result[s]: the _result attribute of scope s
    status,     \* "new" (constructed), "entered" (inside its with body), "closed",
                \* "failed" (its __exit__ raised)
    stack,      \* the with statements the client is inside of, innermost last
    exc,        \* the error that is propagating out of the with statements, or NoError
    last,       \* what the most recent constructor call raised, "none" after other steps
    steps       \* the number of operations the client has performed

vars == <<defaults, objs, data, _result, status, stack, exc, last, steps>>

----------------------------------------------------------------------------
(* Bounds of the model. *)

MaxScopes == 2      \* scopes constructed in a run of Spec
MaxOps == 8         \* operations of the client in a run of Spec
MaxCfgScopes == 2   \* scopes constructed in a run of SpecCfg
MaxCfgOps == 4      \* operations of the client in a run of SpecCfg

----------------------------------------------------------------------------
(* Generic helpers. *)

None == <<>>
Some(v) == <<v>>

EmptyDict == [k \in {} |-> 0]

Put(d, k, v) == [x \in (DOMAIN d) \cup {k} |-> IF x = k THEN v ELSE d[x]]

\* Python's  a | b  on dictionaries: the keys of both, b's values winning.
DictMerge(a, b) == [x \in (DOMAIN a) \cup (DOMAIN b) |-> IF x \in DOMAIN b THEN b[x] ELSE a[x]]

Min(S) == CHOOSE x \in S : \A y \in S : x <= y

RECURSIVE Concat(_)
\* "".join(parts)
Concat(parts) == IF parts = <<>> THEN "" ELSE Head(parts) \o Concat(Tail(parts))

RECURSIVE Join(_, _)
\* delimiter.join(items)
Join(delimiter, items) ==
    IF items = <<>> THEN ""
    ELSE IF Len(items) = 1 THEN items[1]
    ELSE items[1] \o delimiter \o Join(delimiter, Tail(items))

\* str(n) for the integers the model formats
Str(n) == ToString(n)

----------------------------------------------------------------------------
(* opsladder.py *)

Object == "object"
HasOptions == "HasOptions"
Assemblable == "Assemblable"
DocumentPart == "DocumentPart"
NewCommand == "NewCommand"
Environment == "Environment"

\* a class of a client that inherits from a class of the library and assigns
\* no _defaults:  class SubPart(DocumentPart): pass
SubPart == "SubPart"

\* c.mro(), most derived first
Mro(c) ==
    CASE c = Object -> <<Object>>
      [] c = HasOptions -> <<HasOptions, Object>>
      [] c = Assemblable -> <<Assemblable, HasOptions, Object>>
      [] c = DocumentPart -> <<DocumentPart, Assemblable, HasOptions, Object>>
      [] c = NewCommand -> <<NewCommand, DocumentPart, Assemblable, HasOptions, Object>>
      [] c = Environment -> <<Environment, DocumentPart, Assemblable, HasOptions, Object>>
      [] c = SubPart -> <<SubPart, DocumentPart, Assemblable, HasOptions, Object>>

\* the classes whose body assigns _defaults
DeclaresDefaults == {Assemblable, DocumentPart, NewCommand, Environment}

InMro(c, b) == \E i \in 1..Len(Mro(c)) : Mro(c)[i] = b

\* hasattr(c, '_defaults'): the attribute is found on c or inherited
HasDefaultsAttr(c) == \E i \in 1..Len(Mro(c)) : Mro(c)[i] \in DeclaresDefaults

\* the class whose dictionary  c._defaults  evaluates to
DefaultsOwner(c) ==
    Mro(c)[Min({i \in 1..Len(Mro(c)) : Mro(c)[i] \in DeclaresDefaults})]

RECURSIVE LadderFrom_reversed(_, _, _)
\* LadderFrom with each dictionary put behind the chain built so far instead of
\* in front of it
LadderFrom_reversed(mro, i, d) ==
    IF i = 0 THEN d
    ELSE LadderFrom_reversed(mro, i - 1,
            IF InMro(mro[i], HasOptions) /\ HasDefaultsAttr(mro[i])
            THEN d \o <<DefaultsOwner(mro[i])>>
            ELSE d)

RECURSIVE LadderFrom(_, _, _)
\* the loop of OptionsLadder.__new__ over reversed(mro), from position i down to
\* 1, d being the chain built so far (first consulted first)
LadderFrom(mro, i, d) ==
    IF i = 0 THEN d
    ELSE LadderFrom(mro, i - 1,
            IF InMro(mro[i], HasOptions) /\ HasDefaultsAttr(mro[i])
            THEN <<DefaultsOwner(mro[i])>> \o d
            ELSE d)

\* cls.settings as OptionsLadder.__new__ leaves it: the dictionaries consulted,
\* named by the class that owns each, first consulted first
Ladder(c) == LadderFrom(Mro(c), Len(Mro(c)), <<>>)

\* the classes OptionsLadder.__new__ creates
Classes == {Assemblable, DocumentPart, NewCommand, Environment, SubPart}

\* the attribute settings that OptionsLadder.__new__ gives each class it creates
settings == [c \in Classes |-> Ladder(c)]

\* the keys of the Options TypedDict of a class (its __annotations__, which for
\* a TypedDict include the inherited keys)
Annotations(c) ==
    CASE c = Assemblable -> {"list_type", "pipeline", "initial_list"}
      [] c = DocumentPart -> {"list_type", "pipeline", "initial_list",
                              "name", "prolog", "epilog", "delimiter"}
      [] c = NewCommand -> {"list_type", "pipeline", "initial_list",
                            "name", "prolog", "epilog", "delimiter", "nargs", "default"}
      [] c = Environment -> {"list_type", "pipeline", "initial_list",
                             "name", "prolog", "epilog", "delimiter", "args", "ops"}

\* options_filter that leaves the claimed keys in the second dictionary as well
options_filter_keep_all(x, s) ==
    << [k \in {j \in DOMAIN x : j \in s} |-> x[k]], x >>

\* options_filter(x, s): <<claimed, unclaimed>>
options_filter(x, s) ==
    << [k \in {j \in DOMAIN x : j \in s} |-> x[k]],
       [k \in {j \in DOMAIN x : j \notin s} |-> x[k]] >>

----------------------------------------------------------------------------
(* llatex.py: names, validation and the computed prolog and epilog *)

Lower == {"a", "b", "c", "d", "e", "f", "g", "h", "i", "j", "k", "l", "m",
          "n", "o", "p", "q", "r", "s", "t", "u", "v", "w", "x", "y", "z"}
Upper == {"A", "B", "C", "D", "E", "F", "G", "H", "I", "J", "K", "L", "M",
          "N", "O", "P", "Q", "R", "S", "T", "U", "V", "W", "X", "Y", "Z"}
Letters == Lower \cup Upper
Digits == {"0", "1", "2", "3", "4", "5", "6", "7", "8", "9"}

\* re.fullmatch(r'[first][rest]*', name)
FullMatch(name, first, rest) ==
    /\ Len(name) >= 1
    /\ name[1] \in first
    /\ \A i \in 2..Len(name) : name[i] \in rest

\* validate_latex_control_word(name): "ValueError" or "ok"
validate_latex_control_word(name) ==
    IF name = <<>> THEN "ValueError"
    ELSE IF ~FullMatch(name, Letters, Letters \cup {"@", "*", ":"}) THEN "ValueError"
    ELSE "ok"

\* validate_environment_name(name): "ValueError" or "ok"
validate_environment_name(name) ==
    IF name = <<>> THEN "ValueError"
    ELSE IF ~FullMatch(name, Letters, Letters \cup Digits \cup {"@", "*"}) THEN "ValueError"
    ELSE "ok"

\* the text of a name
Text(name) == Concat(name)

\* NewCommandProlog with the argument count printed also when it is 0
NewCommandProlog_always_count(name, nargs, default) ==
    "\\newcommand{\\" \o Text(name) \o "}"
    \o "[" \o Str(nargs) \o "]"
    \o (IF default # None THEN "[" \o default[1] \o "]" ELSE "")
    \o "{%\n"

\* the f-string of NewCommand.validate_and_update
NewCommandProlog(name, nargs, default) ==
    "\\newcommand{\\" \o Text(name) \o "}"
    \o (IF nargs > 0 THEN "[" \o Str(nargs) \o "]" ELSE "")
    \o (IF default # None THEN "[" \o default[1] \o "]" ELSE "")
    \o "{%\n"

\* Python truth of a str | None
Truthy(opt) == opt # None /\ opt[1] # ""

\* the f-strings of Environment.validate_and_update
EnvironmentProlog(name, args, ops) ==
    "\\begin{" \o Text(name) \o "}"
    \o (IF Truthy(ops) THEN "[" \o ops[1] \o "]" ELSE "")
    \o (IF Truthy(args) THEN "{" \o args[1] \o "}" ELSE "")
    \o "%\n"

\* EnvironmentEpilog without the newline in front of \end
EnvironmentEpilog_no_newline(name) == "\\end{" \o Text(name) \o "}%"

EnvironmentEpilog(name) == "\n\\end{" \o Text(name) \o "}%"

\* NewCommand.validate_and_update with the range check after the assignment
\* of the prolog
NewCommand_validate_and_update_late_check(d, cls, merged) ==
    LET name == merged["name"][1]
        nargs == merged["nargs"]
        default == merged["default"]
        written == [d EXCEPT ![DefaultsOwner(cls)] =
                        Put(@, "prolog", NewCommandProlog(name, nargs, default))]
    IN  IF validate_latex_control_word(name) # "ok"
        THEN [raised |-> "ValueError", defaults |-> d]
        ELSE IF nargs < 0 \/ nargs > 9
        THEN [raised |-> "ValueError", defaults |-> written]
        ELSE [raised |-> "ok", defaults |-> written]

\* NewCommand.validate_and_update(**merged) on the class dictionaries d, for an
\* instance of class cls: what it raises and the dictionaries afterwards
NewCommand_validate_and_update(d, cls, merged) ==
    LET name == merged["name"][1]
        nargs == merged["nargs"]
        default == merged["default"]
    IN  IF validate_latex_control_word(name) # "ok"
        THEN [raised |-> "ValueError", defaults |-> d]
        ELSE IF nargs < 0 \/ nargs > 9
        THEN [raised |-> "ValueError", defaults |-> d]
        ELSE [raised |-> "ok",
              defaults |-> [d EXCEPT ![DefaultsOwner(cls)] =
                                Put(@, "prolog", NewCommandProlog(name, nargs, default))]]

\* Environment.validate_and_update(**merged)
Environment_validate_and_update(d, cls, merged) ==
    LET name == merged["name"][1]
        args == merged["args"]
        ops == merged["ops"]
        o == DefaultsOwner(cls)
    IN  IF validate_environment_name(name) # "ok"
        THEN [raised |-> "ValueError", defaults |-> d]
        ELSE [raised |-> "ok",
              defaults |-> [d EXCEPT ![o] =
                                Put(Put(@, "prolog", EnvironmentProlog(name, args, ops)),
                                    "epilog", EnvironmentEpilog(name))]]

\* the _defaults dictionaries as the class bodies declare them
DeclaredDefaults ==
    [c \in DeclaresDefaults |->
        CASE c = Assemblable ->
                [list_type |-> "AssembleList", initial_list |-> <<>>, pipeline |-> <<>>]
          [] c = DocumentPart ->
                [list_type |-> "LatexList", name |-> None, prolog |-> "",
                 epilog |-> "", delimiter |-> "\n"]
          [] c = NewCommand ->
                [nargs |-> 0, default |-> None, epilog |-> "\n}%", delimiter |-> "\n"]
          [] c = Environment ->
                [args |-> None, ops |-> None, delimiter |-> "\n"]]

----------------------------------------------------------------------------
(* Construction.  Each __init__ is an operator from the class dictionaries   *)
(* d and the instance's settings chain so far to what it raises, the class  *)
(* dictionaries afterwards and the instance's own layers, first consulted   *)
(* first; the class layers Ladder(cls) follow them in the chain.            *)

\* a bound method  self.fn
Bound(fn, self) == [fn |-> fn, self |-> self]

\* Assemblable.__init__: settings = ChainMap({}, settings), updated with kwargs
Assemblable__init__(d, maps, kwargs) ==
    [raised |-> "ok", defaults |-> d, maps |-> <<kwargs>> \o maps]

\* DocumentPart.__init__ of instance self, of class cls
DocumentPart__init__(d, self, cls, maps, kwargs) ==
    LET d1 == [d EXCEPT ![DefaultsOwner(cls)] =
                    Put(@, "pipeline", <<Bound("p_join", self), Bound("p_wrap", self)>>)]
        part == options_filter(kwargs, Annotations(Assemblable))
    IN  Assemblable__init__(d1, <<part[2]>> \o maps, part[1])

\* NewCommand.__init__(self, parent, cmd_name, **kwargs0)
NewCommand__init__(d, self, cls, cmd_name, kwargs0) ==
    LET kwargs == Put(kwargs0, "name", Some(cmd_name))
        v == NewCommand_validate_and_update(d, cls, DictMerge(d[DefaultsOwner(cls)], kwargs))
        part == options_filter(kwargs, Annotations(DocumentPart))
    IN  IF v.raised # "ok"
        THEN [raised |-> v.raised, defaults |-> v.defaults, maps |-> <<>>]
        ELSE DocumentPart__init__(v.defaults, self, cls, <<part[2]>>, part[1])

\* Environment.__init__(self, parent, env_name, **kwargs0)
Environment__init__(d, self, cls, env_name, kwargs0) ==
    LET kwargs == Put(kwargs0, "name", Some(env_name))
        v == Environment_validate_and_update(d, cls, DictMerge(d[DefaultsOwner(cls)], kwargs))
        part == options_filter(kwargs, Annotations(DocumentPart))
    IN  IF v.raised # "ok"
        THEN [raised |-> v.raised, defaults |-> v.defaults, maps |-> <<>>]
        ELSE DocumentPart__init__(v.defaults, self, cls, <<part[2]>>, part[1])

\* a constructor call: the class, the positional name (NewCommand and
\* Environment only) and the keyword arguments
Call(cls, name, kw) == [cls |-> cls, name |-> name, kw |-> kw]

\* cls(parent, [name,] **kw) constructing instance number self
Construct(d, self, call) ==
    CASE call.cls = Assemblable -> Assemblable__init__(d, <<>>, call.kw)
      [] call.cls \in {DocumentPart, SubPart} ->
                DocumentPart__init__(d, self, call.cls, <<>>, call.kw)
      [] call.cls = NewCommand -> NewCommand__init__(d, self, call.cls, call.name, call.kw)
      [] call.cls = Environment -> Environment__init__(d, self, call.cls, call.name, call.kw)

----------------------------------------------------------------------------
(* assemblable.py: the scope instances *)

Scopes == 1..Len(objs)

\* chain[key] for the chain made of the instance layers maps followed by the
\* class layers of cls (none when cls is object), the class dictionaries being
\* d: <<>> when no layer has the key (KeyError), <<value>> otherwise
ChainGet(maps, cls, d, key) ==
    LET own == {i \in 1..Len(maps) : key \in DOMAIN maps[i]}
        lad == IF cls \in Classes THEN settings[cls] ELSE <<>>
        shared == {i \in 1..Len(lad) : key \in DOMAIN d[lad[i]]}
    IN  IF own # {} THEN <<maps[Min(own)][key]>>
        ELSE IF shared # {} THEN <<d[lad[Min(shared)]][key]>>
        ELSE <<>>

\* self.settings[key] of scope s, for a key some layer has
Setting(s, key) == ChainGet(objs[s].maps, objs[s].cls, defaults, key)[1]

\* DocumentPart.p_join bound to scope o
p_join(o, items) == <<Join(Setting(o, "delimiter"), items)>>

\* DocumentPart.p_wrap bound to scope o
p_wrap(o, items) == <<Concat(<<Setting(o, "prolog")>> \o items \o <<Setting(o, "epilog")>>)>>

\* a function the caller puts in a pipeline, as opposed to a bound method
Function(fn) == [fn |-> fn, self |-> 0]

\* func(data) for one pipeline entry: what it raises and the list it returns;
\* "fail" is a function of the caller's that raises
ApplyStage(func, items) ==
    CASE func.fn = "p_join" -> [raised |-> "ok", items |-> p_join(func.self, items)]
      [] func.fn = "p_wrap" -> [raised |-> "ok", items |-> p_wrap(func.self, items)]
      [] func.fn = "fail" -> [raised |-> "StageError", items |-> <<>>]

RECURSIVE Fold_reversed(_, _)
\* the loop of run_pipeline taking the functions last to first
Fold_reversed(funcs, items) ==
    IF funcs = <<>> THEN [raised |-> "ok", items |-> items]
    ELSE LET r == ApplyStage(funcs[Len(funcs)], items)
         IN  IF r.raised # "ok" THEN r
             ELSE Fold_reversed(SubSeq(funcs, 1, Len(funcs) - 1), r.items)

RECURSIVE Fold(_, _)
\* the loop of run_pipeline over the functions funcs, left when one raises
Fold(funcs, items) ==
    IF funcs = <<>> THEN [raised |-> "ok", items |-> items]
    ELSE LET r == ApplyStage(Head(funcs), items)
         IN  IF r.raised # "ok" THEN r ELSE Fold(Tail(funcs), r.items)

\* run_pipeline that starts from a new empty list when no function runs
run_pipeline_fresh(s, items) ==
    LET r == Fold(Setting(s, "pipeline"), items)
    IN  [raised |-> r.raised,
         same |-> FALSE,
         items |-> IF Setting(s, "pipeline") = <<>> THEN <<>> ELSE r.items]

\* run_pipeline that catches what a function raises and returns the items
\* it was given
run_pipeline_swallow(s, items) ==
    LET r == Fold(Setting(s, "pipeline"), items)
    IN  [raised |-> "ok",
         same |-> Setting(s, "pipeline") = <<>>,
         items |-> IF r.raised # "ok" THEN items ELSE r.items]

\* self.run_pipeline(self.data) of scope s: what it raises, the list returned,
\* and whether that is the list object self.data itself (no function ran) or a
\* list of its own
run_pipeline(s, items) ==
    LET r == Fold(Setting(s, "pipeline"), items)
    IN  [raised |-> r.raised,
         same |-> Setting(s, "pipeline") = <<>>,
         items |-> r.items]

\* _result initialised to an empty list instead of None
NoResult_empty_list == [ref |-> "own", items |-> <<>>]

NoResult == [ref |-> "None", items |-> <<>>]

\* the property  result  of scope s: what it raises and what it returns
result(s) ==
    IF _result[s].ref = "None" THEN [raised |-> "ValueError", value |-> <<>>]
    ELSE IF _result[s].ref = "data" THEN [raised |-> "ok", value |-> data[s]]
    ELSE [raised |-> "ok", value |-> _result[s].items]

NoError == "none"

\* an AssembleList that is the very list object it was given
AssembleList__init___alias(init) == [shared |-> TRUE, items |-> init]

\* AssembleList(init, context): a new list object (shared is FALSE) holding the
\* items of init, list.__init__ copying them from  init or []
AssembleList__init__(init) == [shared |-> FALSE, items |-> init]

\* the initial_list that scope s was given is in its own layer (its caller
\* supplied it) rather than in the dictionary of class Assemblable
OwnInitial(s) == "initial_list" \in DOMAIN objs[s].maps[1]

\* the scopes whose data is the same list object as the data of scope s: s
\* itself, and, were s's list the initial list of the class dictionary, every
\* scope in the same case
Sharers(s) ==
    {t \in Scopes :
        \/ t = s
        \/ /\ objs[s].shared /\ ~OwnInitial(s)
           /\ objs[t].shared /\ ~OwnInitial(t)}

\* the lists, the class dictionaries and the scopes after the list object
\* data of scope s has come to hold the items new
DataAfter(s, new) == [t \in 1..Len(data) |-> IF t \in Sharers(s) THEN new ELSE data[t]]

DefaultsAfter(s, new) ==
    IF objs[s].shared /\ ~OwnInitial(s)
    THEN [defaults EXCEPT ![Assemblable] = Put(@, "initial_list", new)]
    ELSE defaults

ObjsAfter(s, new) ==
    IF objs[s].shared /\ OwnInitial(s)
    THEN [objs EXCEPT ![s].maps = [@ EXCEPT ![1] = Put(@, "initial_list", new)]]
    ELSE objs

\* cls(parent, ...) by the client; parent 0 is None, parent p the list of scope p
New(call, parent, max) ==
    /\ exc = NoError
    /\ Len(objs) < max
    /\ LET self == Len(objs) + 1
           r == Construct(defaults, self, call)
           list == AssembleList__init__(ChainGet(r.maps, call.cls, r.defaults, "initial_list")[1])
       IN  /\ last' = r.raised
           /\ defaults' = r.defaults
           /\ IF r.raised # "ok"
              THEN UNCHANGED <<objs, data, _result, status>>
              ELSE /\ objs' = Append(objs, [cls |-> call.cls, parent |-> parent,
                                             maps |-> r.maps, shared |-> list.shared])
                   /\ data' = Append(data, list.items)
                   /\ _result' = Append(_result, NoResult)
                   /\ status' = Append(status, "new")
    /\ UNCHANGED <<stack, exc>>

\* __enter__ that makes the list the result already
Enter_sets_result(s) ==
    /\ exc = NoError
    /\ status[s] = "new"
    /\ status' = [status EXCEPT ![s] = "entered"]
    /\ stack' = Append(stack, s)
    /\ _result' = [_result EXCEPT ![s] = [ref |-> "data", items |-> <<>>]]
    /\ last' = "none"
    /\ UNCHANGED <<defaults, objs, data, exc>>

\* with s as handle:  the body is entered
Enter(s) ==
    /\ exc = NoError
    /\ status[s] = "new"
    /\ status' = [status EXCEPT ![s] = "entered"]
    /\ stack' = Append(stack, s)
    /\ last' = "none"
    /\ UNCHANGED <<defaults, objs, data, _result, exc>>

\* one more operation of a client that performs at most max of them
Tick(max) == steps < max /\ steps' = steps + 1

\* handle.append(item) by the client, on the list of a scope it has entered
AppendItem(s, item) ==
    /\ exc = NoError
    /\ status[s] # "new"
    /\ data' = DataAfter(s, Append(data[s], item))
    /\ defaults' = DefaultsAfter(s, Append(data[s], item))
    /\ objs' = ObjsAfter(s, Append(data[s], item))
    /\ last' = "none"
    /\ UNCHANGED <<_result, status, stack, exc>>

\* a statement of the innermost with body raises
Raise ==
    /\ exc = NoError
    /\ stack # <<>>
    /\ exc' = "BodyError"
    /\ last' = "none"
    /\ UNCHANGED <<defaults, objs, data, _result, status, stack>>

\* the error has left the outermost with statement and the client handles it
Catch ==
    /\ exc # NoError
    /\ stack = <<>>
    /\ exc' = NoError
    /\ last' = "none"
    /\ UNCHANGED <<defaults, objs, data, _result, status, stack>>

\* list.extend that puts the items in front
extend_front(xs, items) == items \o xs

\* list.extend that keeps only the items
extend_replace(xs, items) == items

\* xs.extend(items): the contents of xs afterwards
extend(xs, items) == xs \o items

\* a parent test that also asks that no error is propagating
HasParent_unless_error(s) == objs[s].parent # 0 /\ exc = NoError

\* self._parent is not None
HasParent(s) == objs[s].parent # 0

\* an __exit__ that returns True
Suppresses_always(s) == TRUE

\* whether __exit__ of scope s returns a true value, which would make the with
\* statement swallow the error; it returns None
Suppresses(s) == FALSE

\* __exit__ of scope s, the innermost with statement, on leaving its body
\* normally or with the error that is propagating.  When a function of the
\* pipeline raises, _result is not assigned, the parent is not extended and
\* that error propagates in place of any other.
__exit__(s) ==
    /\ stack # <<>>
    /\ s = stack[Len(stack)]
    /\ LET out == run_pipeline(s, data[s])
       IN  IF out.raised # "ok"
           THEN /\ exc' = out.raised
                /\ status' = [status EXCEPT ![s] = "failed"]
                /\ UNCHANGED <<_result, data, defaults, objs>>
           ELSE /\ _result' = [_result EXCEPT ![s] =
                                 IF out.same THEN [ref |-> "data", items |-> <<>>]
                                 ELSE [ref |-> "own", items |-> out.items]]
                /\ IF HasParent(s)
                   THEN LET parent == objs[s].parent
                            new == extend(data[parent], out.items)
                        IN  /\ data' = DataAfter(parent, new)
                            /\ defaults' = DefaultsAfter(parent, new)
                            /\ objs' = ObjsAfter(parent, new)
                   ELSE UNCHANGED <<data, defaults, objs>>
                /\ status' = [status EXCEPT ![s] = "closed"]
                /\ exc' = IF Suppresses(s) THEN NoError ELSE exc
    /\ stack' = SubSeq(stack, 1, Len(stack) - 1)
    /\ last' = "none"

----------------------------------------------------------------------------
(* The clients *)

N_document == <<"d", "o", "c", "u", "m", "e", "n", "t">>
N_greet == <<"g", "r", "e", "e", "t">>

Hello == "\\textbf{Hello, #1!}"
GreetWorld == "\\greet{World}"

\* the constructor calls and items of the clients of Spec
CoreCalls ==
    { Call(Assemblable, <<>>, EmptyDict),
      Call(NewCommand, N_greet, [nargs |-> 1]),
      Call(Environment, N_document, EmptyDict) }

CoreItems == {Hello, GreetWorld}

\* the lists the client holds a handle of
Handles == {s \in Scopes : status[s] # "new"}

Init ==
    /\ defaults = DeclaredDefaults
    /\ objs = <<>>
    /\ data = <<>>
    /\ _result = <<>>
    /\ status = <<>>
    /\ stack = <<>>
    /\ exc = NoError
    /\ last = "none"
    /\ steps = 0

\* the operations of the client of Spec, one at a time
ClientNew ==
    /\ Tick(MaxOps)
    /\ \E call \in CoreCalls, parent \in {0} \cup Handles : New(call, parent, MaxScopes)

ClientEnter == Tick(MaxOps) /\ \E s \in Scopes : Enter(s)

ClientAppend == Tick(MaxOps) /\ \E s \in Scopes, item \in CoreItems : AppendItem(s, item)

ClientExit == Tick(MaxOps) /\ \E s \in Scopes : __exit__(s)

ClientRaise == Tick(MaxOps) /\ Raise

ClientCatch == Tick(MaxOps) /\ Catch

Next ==
    \/ ClientNew
    \/ ClientEnter
    \/ ClientAppend
    \/ ClientExit
    \/ ClientRaise
    \/ ClientCatch

Spec == Init /\ [][Next]_vars

----------------------------------------------------------------------------
(* The clients of SpecCfg: constructor calls of every class, with valid and   *)
(* invalid names and argument counts and with caller-supplied options.        *)

N_itemize == <<"i", "t", "e", "m", "i", "z", "e">>
N_a_colon == <<"a", ":">>       \* a command name that is no environment name
N_a_one == <<"a", "1">>         \* an environment name that is no command name
N_one_a == <<"1", "a">>         \* starts with a digit
N_empty == <<>>

\* the names tried as command names and as environment names
CommandNames == {N_greet, N_a_colon, N_a_one, N_one_a, N_empty}
EnvironmentNames == {N_document, N_itemize, N_a_one, N_a_colon, N_one_a, N_empty}

NewCommandKw ==
    {[nargs |-> n] : n \in {-1, 0, 3, 9, 10}}
    \cup {EmptyDict, [default |-> Some("d")], [nargs |-> 1, delimiter |-> ", "]}

EnvironmentKw ==
    {EmptyDict, [ops |-> Some("o")], [args |-> Some("a"), ops |-> Some("o")]}

CfgCalls ==
    { Call(Assemblable, <<>>, EmptyDict),
      Call(DocumentPart, <<>>, EmptyDict),
      Call(DocumentPart, <<>>, [prolog |-> "<", epilog |-> ">", pipeline |-> <<>>]),
      Call(Assemblable, <<>>, [initial_list |-> <<"i">>]),
      Call(SubPart, <<>>, EmptyDict) }
    \cup {Call(NewCommand, N_greet, kw) : kw \in NewCommandKw}
    \cup {Call(NewCommand, n, EmptyDict) : n \in CommandNames}
    \cup {Call(Environment, N_itemize, kw) : kw \in EnvironmentKw}
    \cup {Call(Environment, n, EmptyDict) : n \in EnvironmentNames}

CfgItems == {"x"}

CfgNew ==
    /\ Tick(MaxCfgOps)
    /\ \E call \in CfgCalls, parent \in {0} \cup Handles : New(call, parent, MaxCfgScopes)

CfgEnter == Tick(MaxCfgOps) /\ \E s \in Scopes : Enter(s)

CfgAppend == Tick(MaxCfgOps) /\ \E s \in Scopes, item \in CfgItems : AppendItem(s, item)

CfgExit == Tick(MaxCfgOps) /\ \E s \in Scopes : __exit__(s)

NextCfg ==
    \/ CfgNew
    \/ CfgEnter
    \/ CfgAppend
    \/ CfgExit

SpecCfg == Init /\ [][NextCfg]_vars

----------------------------------------------------------------------------
(* The clients of SpecErr: bodies that raise, and scopes whose caller put a  *)
(* function that raises in the pipeline.                                     *)

MaxErrScopes == 2   \* scopes constructed in a run of SpecErr
MaxErrOps == 7      \* operations of the client in a run of SpecErr

ErrCalls ==
    { Call(Assemblable, <<>>, EmptyDict),
      Call(Assemblable, <<>>, [pipeline |-> <<Function("fail")>>]),
      Call(Environment, N_document, EmptyDict) }

ErrItems == {"x"}

ErrNew ==
    /\ Tick(MaxErrOps)
    /\ \E call \in ErrCalls, parent \in {0} \cup Handles : New(call, parent, MaxErrScopes)

ErrEnter == Tick(MaxErrOps) /\ \E s \in Scopes : Enter(s)

ErrAppend == Tick(MaxErrOps) /\ \E s \in Scopes, item \in ErrItems : AppendItem(s, item)

ErrExit == Tick(MaxErrOps) /\ \E s \in Scopes : __exit__(s)

ErrRaise == Tick(MaxErrOps) /\ Raise

ErrCatch == Tick(MaxErrOps) /\ Catch

NextErr ==
    \/ ErrNew
    \/ ErrEnter
    \/ ErrAppend
    \/ ErrExit
    \/ ErrRaise
    \/ ErrCatch

SpecErr == Init /\ [][NextErr]_vars

----------------------------------------------------------------------------
(* The clients of SpecSib: several scopes opened against the same parent    *)
(* list, closed in the order the with statements nest.                      *)

MaxSibScopes == 3   \* scopes constructed in a run of SpecSib
MaxSibOps == 8      \* operations of the client in a run of SpecSib

SibCalls ==
    { Call(NewCommand, N_greet, EmptyDict),
      Call(Environment, N_document, EmptyDict) }

SibItems == {"x"}

SibNew ==
    /\ Tick(MaxSibOps)
    /\ \E call \in SibCalls, parent \in {0} \cup Handles : New(call, parent, MaxSibScopes)

SibEnter == Tick(MaxSibOps) /\ \E s \in Scopes : Enter(s)

SibAppend == Tick(MaxSibOps) /\ \E s \in Scopes, item \in SibItems : AppendItem(s, item)

SibExit == Tick(MaxSibOps) /\ \E s \in Scopes : __exit__(s)

NextSib ==
    \/ SibNew
    \/ SibEnter
    \/ SibAppend
    \/ SibExit

SpecSib == Init /\ [][NextSib]_vars

----------------------------------------------------------------------------
(* Claims about the scope lifecycle, checked under Spec *)

\* scope s leaves its with body in this step
Closes(s) == s \in Scopes /\ status[s] = "entered" /\ status'[s] = "closed"

\* C1: whenever a scope leaves its with body, with or without an error
\* propagating, its result becomes the output of its pipeline over the contents
\* its list has at that moment, and that output is appended at the end of its
\* parent's list when it has a parent.
C1_ExitRunsPipeline ==
    [][\A s \in Scopes : Closes(s) =>
          LET out == run_pipeline(s, data[s]).items
              parent == objs[s].parent
          IN  /\ result(s)' = [raised |-> "ok", value |-> out]
              /\ parent # 0 => data'[parent] = data[parent] \o out
              /\ parent = 0 => data' = data
              /\ exc' = exc]_vars

\* an error has propagated out of every with statement, and a scope that has a
\* closed child holds the pipeline output as its result
C1_Witness ==
    /\ exc = "BodyError"
    /\ stack = <<>>
    /\ \E s, c \in Scopes :
          /\ status[s] = "closed" /\ status[c] = "closed"
          /\ objs[c].parent = s
          /\ data[s] # <<>>
          /\ result(s).value = run_pipeline(s, data[s]).items

\* C2: reading result raises for every scope that has not closed, whatever its
\* list holds, and returns without raising for every scope that has closed.
C2_ResultRaisesUntilClosed ==
    \A s \in Scopes :
        /\ status[s] # "closed" => result(s) = [raised |-> "ValueError", value |-> <<>>]
        /\ status[s] = "closed" => result(s).raised = "ok"

\* an open scope whose list already holds the result of a closed child
C2_Witness ==
    \E s, c \in Scopes :
        /\ status[s] = "entered" /\ status[c] = "closed"
        /\ objs[c].parent = s
        /\ data[s] # <<>>
        /\ result(s).raised = "ValueError"
        /\ result(c).raised = "ok"

ExpectedCommand == "\\newcommand{\\greet}[1]{%\n\\textbf{Hello, #1!}\n}%"
ExpectedDocument ==
    "\\begin{document}%\n\\newcommand{\\greet}[1]{%\n\\textbf{Hello, #1!}\n}%\n\\greet{World}\n\\end{document}%"

\* the scopes of the scenario: Environment(None, 'document') and then
\* NewCommand(doc, 'greet', nargs=1), and no other
ScenarioScopes ==
    /\ Len(objs) = 2
    /\ objs[1].cls = Environment /\ objs[1].parent = 0
    /\ Setting(1, "name") = Some(N_document)
    /\ objs[2].cls = NewCommand /\ objs[2].parent = 1
    /\ Setting(2, "name") = Some(N_greet)
    /\ Setting(2, "nargs") = 1

\* C3: in the scenario, closing the command that holds the one line appends
\* the rendered command to the empty document, and closing the document that
\* holds the rendered command and the line \greet{World} gives the expected
\* single string.
C3_EndToEnd ==
    [][ScenarioScopes =>
          /\ (Closes(2) /\ status[1] = "entered" /\ data[1] = <<>> /\ data[2] = <<Hello>>)
                => (data'[1] = <<ExpectedCommand>> /\ result(2)'.value = <<ExpectedCommand>>)
          /\ (Closes(1) /\ status[2] = "closed" /\ data[1] = <<ExpectedCommand, GreetWorld>>)
                => result(1)' = [raised |-> "ok", value |-> <<ExpectedDocument>>]]_vars

\* the scenario has run to its end
C3_Witness ==
    /\ ScenarioScopes
    /\ status = <<"closed", "closed">>
    /\ data[2] = <<Hello>>
    /\ data[1] = <<ExpectedCommand, GreetWorld>>
    /\ result(2).value = <<ExpectedCommand>>
    /\ result(1).value = <<ExpectedDocument>>

\* scope s is an instance of DocumentPart or of a subclass of it
IsDocumentPart(s) == InMro(objs[s].cls, DocumentPart)

\* C5: when a document part that has a parent closes with the single string
\* str as its result, the lists are afterwards what the literal call
\* parent.append(str) would have made them: the parent's list has str as one
\* more item at its end, and no other list has changed.
C5_NestingTransparency ==
    [][\A c \in Scopes :
          (Closes(c) /\ IsDocumentPart(c) /\ objs[c].parent # 0 /\ Len(result(c)'.value) = 1)
          => data' = [data EXCEPT ![objs[c].parent] = Append(@, result(c)'.value[1])]]_vars

\* a closed document part holds, after an item of its own, the string a closed
\* child rendered, and its own result joins the two with a newline
C5_Witness ==
    \E p, c \in Scopes :
        /\ IsDocumentPart(p) /\ IsDocumentPart(c)
        /\ objs[c].parent = p
        /\ status[c] = "closed" /\ status[p] = "closed"
        /\ Len(data[p]) = 2
        /\ data[p][1] \in CoreItems
        /\ <<data[p][2]>> = result(c).value
        /\ result(p).value = p_wrap(p, <<data[p][1] \o "\n" \o data[p][2]>>)

\* C6: a scope whose pipeline is empty closes with the contents of its list,
\* in their order, as its result.
C6_IdentityPipeline ==
    [][\A s \in Scopes :
          (Closes(s) /\ Setting(s, "pipeline") = <<>>)
          => result(s)' = [raised |-> "ok", value |-> data[s]]]_vars

\* a closed scope with the empty pipeline whose list holds an item of its own
\* after the items a closed child with the empty pipeline spliced in
C6_Witness ==
    \E s, c \in Scopes :
        /\ Setting(s, "pipeline") = <<>> /\ Setting(c, "pipeline") = <<>>
        /\ objs[c].parent = s
        /\ status[s] = "closed" /\ status[c] = "closed"
        /\ data[c] = <<Hello>>
        /\ data[s] = <<Hello, GreetWorld>>
        /\ result(s).value = <<Hello, GreetWorld>>

\* C7: no step changes what result returns for a scope that has closed.
C7_ResultFixed ==
    [][\A s \in Scopes : status[s] = "closed" => result(s)' = result(s)]_vars

----------------------------------------------------------------------------
(* Claims about construction and configuration, checked under SpecCfg *)

\* the constructor calls a client of SpecCfg can make in the current state
CfgChoices == CfgCalls \X ({0} \cup Handles)

\* the step is the constructor call ch[1] with parent ch[2]; only a constructor
\* call leaves an outcome in last
IsNew(ch) ==
    /\ last' # "none"
    /\ last' = "ok" => /\ objs'[Len(objs) + 1].cls = ch[1].cls
                       /\ objs'[Len(objs) + 1].parent = ch[2]
    /\ New(ch[1], ch[2], MaxCfgScopes)

\* the value the instance's own layers give a key, <<>> when they have none
InstanceGet(s, key) == ChainGet(objs[s].maps, Object, defaults, key)

\* the value the class bodies declare for a key, most derived class first, <<>>
\* when no class of the ancestry declares it
DeclaredGet(cls, key) ==
    LET mro == Mro(cls)
        has == {i \in 1..Len(mro) :
                    mro[i] \in DeclaresDefaults /\ key \in DOMAIN DeclaredDefaults[mro[i]]}
    IN  IF has = {} THEN <<>> ELSE <<DeclaredDefaults[mro[Min(has)]][key]>>

\* the value of a key in scope s's own configuration: what its caller gave,
\* otherwise what its class declares
OwnValue(s, key) ==
    IF InstanceGet(s, key) # <<>> THEN InstanceGet(s, key)[1]
    ELSE DeclaredGet(objs[s].cls, key)[1]

OwnProlog(s) ==
    IF objs[s].cls = NewCommand
    THEN "\\newcommand{\\" \o Text(OwnValue(s, "name")[1]) \o "}"
         \o (IF OwnValue(s, "nargs") > 0 THEN "[" \o Str(OwnValue(s, "nargs")) \o "]" ELSE "")
         \o (IF OwnValue(s, "default") # None THEN "[" \o OwnValue(s, "default")[1] \o "]" ELSE "")
         \o "{%\n"
    ELSE "\\begin{" \o Text(OwnValue(s, "name")[1]) \o "}"
         \o (IF Truthy(OwnValue(s, "ops")) THEN "[" \o OwnValue(s, "ops")[1] \o "]" ELSE "")
         \o (IF Truthy(OwnValue(s, "args")) THEN "{" \o OwnValue(s, "args")[1] \o "}" ELSE "")
         \o "%\n"

OwnEpilog(s) ==
    IF objs[s].cls = NewCommand THEN "\n}%"
    ELSE "\n\\end{" \o Text(OwnValue(s, "name")[1]) \o "}%"

\* a command or an environment whose caller gave no prolog, epilog or pipeline
NamedConstruct(s) ==
    /\ objs[s].cls \in {NewCommand, Environment}
    /\ \A key \in {"prolog", "epilog", "pipeline"} : InstanceGet(s, key) = <<>>

RenderKeys == {"prolog", "epilog", "delimiter", "pipeline"}

\* C4: a command or environment closes with its own prolog, its items joined
\* with its own delimiter, and its own epilog; and constructing a scope changes
\* the prolog, epilog, delimiter and pipeline of no scope that exists already.
C4_OwnConfiguration ==
    [][/\ \A s \in Scopes :
            (Closes(s) /\ NamedConstruct(s))
            => result(s)'.value =
                  <<OwnProlog(s) \o Join(OwnValue(s, "delimiter"), data[s]) \o OwnEpilog(s)>>
       /\ \A s \in Scopes :
            Len(objs') > Len(objs)
            => \A key \in RenderKeys :
                  ChainGet(objs[s].maps, objs[s].cls, defaults', key)
                  = ChainGet(objs[s].maps, objs[s].cls, defaults, key)]_vars

\* the grammars of section 4.4
CommandNameOk(name) ==
    /\ name # <<>>
    /\ name[1] \in Letters
    /\ \A i \in 2..Len(name) : name[i] \in Letters \cup {"@", "*", ":"}

EnvironmentNameOk(name) ==
    /\ name # <<>>
    /\ name[1] \in Letters
    /\ \A i \in 2..Len(name) : name[i] \in Letters \cup Digits \cup {"@", "*"}

NargsOf(call) == IF "nargs" \in DOMAIN call.kw THEN call.kw["nargs"] ELSE 0
DefaultOf(call) == IF "default" \in DOMAIN call.kw THEN call.kw["default"] ELSE None

InvalidCall(call) ==
    \/ call.cls = NewCommand /\ ~CommandNameOk(call.name)
    \/ call.cls = Environment /\ ~EnvironmentNameOk(call.name)
    \/ call.cls = NewCommand /\ NargsOf(call) \notin 0..9

\* C8: a constructor call with an invalid name or an argument count outside
\* 0..9 raises ValueError and leaves the class dictionaries, the scopes, every
\* list and every result as they were.
C8_InvalidConstructionChangesNothing ==
    [][\A ch \in CfgChoices :
          (InvalidCall(ch[1]) /\ IsNew(ch))
          => /\ last' = "ValueError"
             /\ UNCHANGED <<defaults, objs, data, _result, status, stack, exc>>]_vars

\* an invalid call has just been refused while a scope is open, has an item, and
\* the class dictionaries carry what an earlier construction wrote
C8_Witness ==
    /\ last = "ValueError"
    /\ \E s \in Scopes : status[s] = "entered" /\ data[s] # <<>>
    /\ defaults # DeclaredDefaults

DigitText == <<"1", "2", "3", "4", "5", "6", "7", "8", "9">>

\* the prefix of section 6 for an accepted argument count
CommandPrefix(name, nargs, default) ==
    Concat(<< "\\newcommand{\\", Text(name), "}",
              IF nargs > 0 THEN Concat(<<"[", DigitText[nargs], "]">>) ELSE "",
              IF default # None THEN Concat(<<"[", default[1], "]">>) ELSE "",
              "{%\n" >>)

\* settings[key] of the scope this step constructs, as <<value>>
Constructed(key) ==
    ChainGet(objs'[Len(objs) + 1].maps, objs'[Len(objs) + 1].cls, defaults', key)

\* C9: NewCommand with a valid name is constructed exactly when 0 <= nargs <= 9
\* and raises ValueError otherwise; the prolog of the scope constructed is
\* \newcommand{\NAME}, [nargs] iff nargs > 0, [default] iff default is not
\* None, and {%<NL>.
C9_NargsRange ==
    [][\A ch \in CfgChoices :
          (ch[1].cls = NewCommand /\ CommandNameOk(ch[1].name) /\ IsNew(ch))
          => LET nargs == NargsOf(ch[1])
                 default == DefaultOf(ch[1])
             IN  /\ nargs \in 0..9
                    => /\ last' = "ok"
                       /\ Len(objs') = Len(objs) + 1
                       /\ Constructed("prolog") = <<CommandPrefix(ch[1].name, nargs, default)>>
                 /\ nargs \notin 0..9 => (last' = "ValueError" /\ objs' = objs)
                 /\ (ch[1].name = N_greet /\ nargs = 0 /\ default = None)
                    => Constructed("prolog") = <<"\\newcommand{\\greet}{%\n">>
                 /\ (ch[1].name = N_greet /\ nargs = 3 /\ default = None)
                    => Constructed("prolog") = <<"\\newcommand{\\greet}[3]{%\n">>]_vars

\* commands with 9 arguments and with a default have been constructed
C9_Witness ==
    /\ Len(objs) = 2
    /\ objs[1].cls = NewCommand /\ Setting(1, "nargs") = 9
    /\ objs[2].cls = NewCommand /\ Setting(2, "default") = Some("d")
    /\ Setting(2, "prolog") = "\\newcommand{\\greet}[d]{%\n"
    /\ last = "ok"

AllKeys == Annotations(NewCommand) \cup Annotations(Environment) \cup {"colour"}

\* the classes of the ancestry of cls that declare defaults, most derived first
Participating(cls) == SelectSeq(Mro(cls), LAMBDA c : c \in DeclaresDefaults)

\* the value of the most derived participating class that defines the key in the
\* class dictionaries d, <<>> when none does
MostDerived(cls, key, d) ==
    LET part == Participating(cls)
        has == {i \in 1..Len(part) : key \in DOMAIN d[part[i]]}
    IN  IF has = {} THEN <<>> ELSE <<d[part[Min(has)]][key]>>

\* the options the caller of a constructor supplies
SuppliedBy(call) ==
    IF call.cls \in {NewCommand, Environment}
    THEN Put(call.kw, "name", Some(call.name))
    ELSE call.kw

\* the keys the constructors compute and write into a class dictionary
ComputedKeys == {"prolog", "epilog", "pipeline"}

\* C10: for every scope and every key, the settings give the value the caller
\* supplied at construction if there is one, and otherwise the value of the most
\* derived class of the scope's ancestry whose dictionary defines the key; for
\* a key no constructor computes that is the value the most derived class body
\* declares.
C10_OptionResolution ==
    [][/\ \A ch \in CfgChoices :
            (IsNew(ch) /\ last' = "ok")
            => LET sup == SuppliedBy(ch[1])
               IN  \A key \in AllKeys :
                      Constructed(key)
                      = IF key \in DOMAIN sup THEN <<sup[key]>>
                        ELSE MostDerived(ch[1].cls, key, defaults')
       /\ \A s \in Scopes : \A key \in AllKeys :
            /\ ChainGet(objs[s].maps, objs[s].cls, defaults', key)
               = IF InstanceGet(s, key) # <<>> THEN InstanceGet(s, key)
                 ELSE MostDerived(objs[s].cls, key, defaults')
            /\ (key \notin ComputedKeys /\ InstanceGet(s, key) = <<>>)
               => ChainGet(objs[s].maps, objs[s].cls, defaults', key)
                  = DeclaredGet(objs[s].cls, key)]_vars

\* a command constructed with its own delimiter uses it, uses the epilog of
\* NewCommand and not that of DocumentPart, and the list type of DocumentPart
\* and not that of Assemblable; a document part constructed with its own
\* pipeline uses it
C10_Witness ==
    \E s, t \in Scopes :
        /\ objs[s].cls = NewCommand
        /\ Setting(s, "delimiter") = ", "
        /\ Setting(s, "nargs") = 1
        /\ Setting(s, "epilog") = "\n}%"
        /\ Setting(s, "list_type") = "LatexList"
        /\ Setting(s, "initial_list") = <<>>
        /\ objs[t].cls = DocumentPart
        /\ Setting(t, "pipeline") = <<>>
        /\ Setting(t, "prolog") = "<"

----------------------------------------------------------------------------
(* Claims about key partitioning, checked under SpecCfg *)

\* the schemas options_filter is called with, and one that recognises nothing
Schemas ==
    {Annotations(c) : c \in {Assemblable, DocumentPart, NewCommand, Environment}} \cup {{}}

\* out is the split of x by schema s: the two parts share no key, have the keys
\* of x between them with the values of x, and a key is in the first part
\* exactly when s recognises it
IsPartition(x, s, out) ==
    /\ (DOMAIN out[1]) \cap (DOMAIN out[2]) = {}
    /\ (DOMAIN out[1]) \cup (DOMAIN out[2]) = DOMAIN x
    /\ \A k \in DOMAIN x :
          /\ k \in s => (k \in DOMAIN out[1] /\ out[1][k] = x[k])
          /\ k \notin s => (k \in DOMAIN out[2] /\ out[2][k] = x[k])

\* keyword sets with a key no schema recognises
UnknownKw == {[colour |-> "red"], [colour |-> "red", delimiter |-> ", ", nargs |-> 2]}

\* C11: for the keyword set of every constructor call, and for every schema,
\* options_filter returns a split in which each key of the input appears with
\* its value in exactly one part, the claimed part exactly when the schema
\* recognises the key; and the layers of a document part just constructed are
\* its caller's options split that way, first by DocumentPart.Options for a
\* command or environment and then by Assemblable.Options.
C11_KeyPartitioning ==
    [][\A ch \in CfgChoices :
          (IsNew(ch) /\ last' = "ok" /\ InMro(ch[1].cls, DocumentPart))
          => LET x == SuppliedBy(ch[1])
                 named == ch[1].cls \in {NewCommand, Environment}
                 first == IF named THEN options_filter(x, Annotations(DocumentPart))
                          ELSE <<x, EmptyDict>>
                 second == options_filter(first[1], Annotations(Assemblable))
             IN  /\ \A s \in Schemas : \A y \in {x} \cup UnknownKw :
                        IsPartition(y, s, options_filter(y, s))
                 /\ named => IsPartition(x, Annotations(DocumentPart), first)
                 /\ IsPartition(first[1], Annotations(Assemblable), second)
                 /\ objs'[Len(objs) + 1].maps
                    = IF named THEN <<second[1], second[2], first[2]>>
                      ELSE <<second[1], second[2]>>]_vars

\* a command whose caller gave a name and a delimiter, which DocumentPart claims
\* and Assemblable does not, and an argument count, which only NewCommand
\* knows; and a document part whose caller gave a pipeline, which Assemblable
\* claims
C11_Witness ==
    \E s, t \in Scopes :
        /\ objs[s].cls = NewCommand
        /\ objs[s].maps = <<EmptyDict, [name |-> Some(N_greet), delimiter |-> ", "], [nargs |-> 1]>>
        /\ objs[t].cls = DocumentPart
        /\ objs[t].maps = <<[pipeline |-> <<>>], [prolog |-> "<", epilog |-> ">"]>>

----------------------------------------------------------------------------
(* Claims about children of one parent, checked under SpecSib *)

\* C12: when a scope with a parent closes, the parent's list afterwards is its
\* list before, unchanged and in the same order, followed by the items of the
\* result of the scope that closed; so what closed earlier stays in front of
\* what closes later, whatever the order of construction and entry.
C12_CloseOrder ==
    [][\A c \in Scopes :
          (Closes(c) /\ objs[c].parent # 0)
          => LET p == objs[c].parent
                 before == Len(data[p])
             IN  /\ Len(data'[p]) = before + Len(result(c)'.value)
                 /\ SubSeq(data'[p], 1, before) = data[p]
                 /\ SubSeq(data'[p], before + 1, Len(data'[p])) = result(c)'.value
                 /\ \A q \in Scopes \ {p} : data'[q] = data[q]]_vars

\* a command and then an environment were constructed and entered against the
\* list of the same parent; the environment closed first, and the parent holds
\* the environment's result in front of the command's
C12_Witness ==
    /\ Len(objs) = 3
    /\ objs[2].parent = 1 /\ objs[3].parent = 1
    /\ objs[2].cls = NewCommand /\ objs[3].cls = Environment
    /\ status[2] = "closed" /\ status[3] = "closed"
    /\ data[1] = result(3).value \o result(2).value
    /\ result(3).value = <<"\\begin{document}%\n\n\\end{document}%">>
    /\ result(2).value = <<"\\newcommand{\\greet}{%\n\n}%">>

----------------------------------------------------------------------------
(* Claims about the exit of a scope, checked under Spec *)

\* the with statement of scope s is left in this step
Exits(s) ==
    /\ stack # <<>>
    /\ s = stack[Len(stack)]
    /\ stack' = SubSeq(stack, 1, Len(stack) - 1)

\* a function of the pipeline of scope s raises when the pipeline runs
StageRaises(s) ==
    \E i \in 1..Len(Setting(s, "pipeline")) :
        /\ Setting(s, "pipeline")[i].fn = "fail"
        /\ \A j \in 1..(i - 1) : Setting(s, "pipeline")[j].fn # "fail"

\* C13: a scope's _result goes from None to a list only in the step that leaves
\* its with statement, and a scope just constructed has none; a with statement
\* is left only by a scope that is inside its body, and a scope that has left
\* it never leaves it again and keeps its _result attribute; a list changes
\* only by an append of the client or by the close of a child of its scope,
\* which happens once and puts the child's result at its end.
C13_ExitOnce ==
    [][/\ \A s \in Scopes :
            /\ (_result[s] = NoResult /\ _result'[s] # NoResult)
               => (Exits(s) /\ status[s] = "entered" /\ status'[s] = "closed")
            /\ Exits(s) => (status[s] = "entered" /\ status'[s] \in {"closed", "failed"})
            /\ status[s] \in {"closed", "failed"}
               => (~Exits(s) /\ status'[s] = status[s] /\ _result'[s] = _result[s])
       /\ \A s \in (1..Len(objs')) \ Scopes : _result'[s] = NoResult
       /\ \A p \in Scopes :
            data'[p] # data[p]
            => \/ \E item \in CoreItems :
                    data'[p] = Append(data[p], item) /\ stack' = stack
               \/ \E c \in Scopes :
                    /\ Closes(c) /\ Exits(c)
                    /\ objs[c].parent = p
                    /\ data'[p] = data[p] \o result(c)'.value
                    /\ \A b \in Scopes \ {c} : status'[b] = status[b]]_vars

\* a closed parent holds the result of its closed child once, in front of an
\* item appended after the child closed
C13_Witness ==
    \E p, c \in Scopes :
        /\ objs[c].parent = p
        /\ IsDocumentPart(c)
        /\ status[c] = "closed" /\ status[p] = "closed"
        /\ stack = <<>>
        /\ Len(data[p]) = 2
        /\ <<data[p][1]>> = result(c).value
        /\ data[p][2] \in CoreItems

----------------------------------------------------------------------------
(* Claims about the class dictionaries and the lists, checked under SpecCfg *)

\* C14: no step, the construction of a scope included, changes a key or a
\* value of a class dictionary.
C14_ClassLayersUnchanged ==
    [][defaults' = defaults]_vars

\* C15: a scope just constructed has a list object of its own that holds the
\* items of the initial list its caller gave, or no item when its caller gave
\* none; a step that changes the items of a list changes the items of no
\* other scope's list; and no step changes the initial list of the class
\* dictionary, which stays empty, or the initial list a scope was given.
C15_FreshList ==
    [][/\ \A ch \in CfgChoices :
            (IsNew(ch) /\ last' = "ok")
            => /\ data'[Len(objs) + 1]
                  = IF "initial_list" \in DOMAIN ch[1].kw THEN ch[1].kw["initial_list"]
                    ELSE <<>>
               /\ ~objs'[Len(objs) + 1].shared
               /\ \A s \in Scopes : data'[s] = data[s]
       /\ \A s \in Scopes :
            /\ data'[s] # data[s] => \A t \in Scopes \ {s} : data'[t] = data[t]
            /\ ChainGet(objs'[s].maps, objs'[s].cls, defaults', "initial_list")
               = ChainGet(objs[s].maps, objs[s].cls, defaults, "initial_list")
            /\ Sharers(s) = {s}
       /\ defaults'[Assemblable]["initial_list"] = <<>>]_vars

\* a scope constructed without an initial list holds an item, and a scope
\* constructed after that item was appended, also without an initial list,
\* holds none
C15_Witness ==
    /\ Len(objs) = 2
    /\ \A s \in Scopes : objs[s].cls = Assemblable /\ ~OwnInitial(s)
    /\ data[1] = <<"x">>
    /\ data[2] = <<>>
    /\ Setting(1, "initial_list") = <<>>

----------------------------------------------------------------------------
(* Claims about the pipeline, checked under Spec *)

\* the pipeline of scope number s in the state after the step
PipelineAfter(s) == ChainGet(objs'[s].maps, objs'[s].cls, defaults', "pipeline")[1]

\* C16: a scope closes with the functions of its pipeline applied to its
\* list first to last, each to what the one before returned; and the pipeline
\* of a document part whose caller gave none is p_join and then p_wrap, so that
\* it closes with the single string prolog + items joined by the delimiter +
\* epilog.
C16_PipelineOrder ==
    [][/\ \A s \in Scopes :
            Closes(s)
            => LET pl == Setting(s, "pipeline")
                   xs == data[s]
               IN  /\ Len(pl) = 0 => result(s)'.value = xs
                   /\ Len(pl) = 1 => result(s)'.value = ApplyStage(pl[1], xs).items
                   /\ Len(pl) = 2
                      => result(s)'.value
                         = ApplyStage(pl[2], ApplyStage(pl[1], xs).items).items
                   /\ (IsDocumentPart(s) /\ "pipeline" \notin DOMAIN objs[s].maps[1])
                      => result(s)'.value
                         = << Setting(pl[2].self, "prolog")
                              \o Join(Setting(pl[1].self, "delimiter"), xs)
                              \o Setting(pl[2].self, "epilog") >>
       /\ \A s \in 1..Len(objs') :
            (InMro(objs'[s].cls, DocumentPart) /\ "pipeline" \notin DOMAIN objs'[s].maps[1])
            => /\ Len(PipelineAfter(s)) = 2
               /\ PipelineAfter(s)[1].fn = "p_join"
               /\ PipelineAfter(s)[2].fn = "p_wrap"]_vars

\* a command has closed with two items: they are joined by the newline, and
\* the prolog and the epilog are around the joined string
C16_Witness ==
    \E s \in Scopes :
        /\ objs[s].cls = NewCommand
        /\ status[s] = "closed"
        /\ data[s] = <<Hello, GreetWorld>>
        /\ result(s).value
           = <<"\\newcommand{\\greet}[1]{%\n\\textbf{Hello, #1!}\n\\greet{World}\n}%">>

----------------------------------------------------------------------------
(* Claims about errors, checked under SpecErr *)

\* C17: when the with statement of a scope is left while an error of a body
\* is propagating and no function of its pipeline raises, the scope closes with
\* its result set and its parent extended, and the same error is propagating
\* afterwards; while an error is propagating inside a with statement the only
\* step is the exit of the innermost one; and the error is no longer
\* propagating only once every with statement has been left.
C17_ErrorsPropagate ==
    [][/\ \A s \in Scopes :
            (Exits(s) /\ exc = "BodyError" /\ ~StageRaises(s))
            => /\ exc' = "BodyError"
               /\ status'[s] = "closed"
               /\ result(s)'.raised = "ok"
               /\ objs[s].parent # 0
                  => data'[objs[s].parent] = data[objs[s].parent] \o result(s)'.value
       /\ (exc # NoError /\ stack # <<>>)
          => (Exits(stack[Len(stack)]) /\ exc' # NoError)
       /\ (exc # NoError /\ exc' = NoError)
          => (stack = <<>> /\ \A s \in Scopes : status[s] # "entered")]_vars

\* an error of a body has left two nested with statements: the inner scope, a
\* document part, and the outer one have both closed, and the outer one holds
\* the inner one's result
C17_Witness ==
    /\ exc = "BodyError"
    /\ stack = <<>>
    /\ Len(objs) = 2
    /\ objs[2].parent = 1
    /\ IsDocumentPart(2)
    /\ status = <<"closed", "closed">>
    /\ data[1] = result(2).value
    /\ result(1).raised = "ok"

----------------------------------------------------------------------------
(* Claims about the result of a document part, checked under SpecCfg *)

\* C18: a document part closes with a result of exactly one item, which is
\* appended to its parent's list; when its list is empty the item is its
\* prolog followed by its epilog.
C18_SingleItem ==
    [][\A s \in Scopes :
          (Closes(s) /\ IsDocumentPart(s))
          => /\ Len(result(s)'.value) = 1
             /\ data[s] = <<>>
                => result(s)'.value = <<Setting(s, "prolog") \o Setting(s, "epilog")>>
             /\ objs[s].parent # 0
                => data'[objs[s].parent]
                   = Append(data[objs[s].parent], result(s)'.value[1])]_vars

----------------------------------------------------------------------------
(* Claims about a pipeline that raises, checked under SpecErr *)

\* C19: when the with statement of a scope is left and a function of its
\* pipeline raises, the scope's result stays absent, so reading it still raises
\* ValueError, no list changes, the parent's included, and the function's
\* error is the one that propagates.
C19_StageRaises ==
    [][\A s \in Scopes :
          (Exits(s) /\ StageRaises(s))
          => /\ _result'[s] = NoResult
             /\ result(s)' = [raised |-> "ValueError", value |-> <<>>]
             /\ data' = data
             /\ exc' = "StageError"
             /\ status'[s] # "closed"]_vars

\* a scope that holds an item and has an open parent was left while a function
\* of its pipeline raised; the error has reached the parent's body
C19_Witness ==
    \E s \in Scopes :
        /\ status[s] = "failed"
        /\ data[s] # <<>>
        /\ objs[s].parent # 0
        /\ status[objs[s].parent] = "entered"
        /\ data[objs[s].parent] = <<>>
        /\ result(s).raised = "ValueError"
        /\ exc = "StageError"

----------------------------------------------------------------------------
(* Claims about the chain of a class, checked under SpecCfg *)

\* C20: the chain of the class of every scope has exactly one layer for each
\* class of its ancestry that assigns _defaults in its body, the most derived
\* first and the most ancestral last, and none for a class that only inherits
\* the attribute.
C20_OneLayerPerDeclaringClass ==
    \A s \in Scopes : Ladder(objs[s].cls) = Participating(objs[s].cls)

====
